---- MODULE Spec2Model ----
(***************************************************************************)
(* Model of the IOAVServiceBridge shim (IOAVServiceBridge.c): four        *)
(* functions mkf_* that forward to the private IOKit entry points          *)
(* IOAVServiceCreate, IOAVServiceCreateWithService, IOAVServiceWriteI2C    *)
(* and IOAVServiceReadI2C.  The framework is external: its results are     *)
(* nondeterministic.  Two callers may be inside the shim at once.          *)
(*                                                                         *)
(* A C value is a record [type, bits]; bits is the value's bytes, most     *)
(* significant first (4 bytes for a 32-bit value, 8 for a pointer), so     *)
(* that truncation or a byte-order change is visible.                      *)
(***************************************************************************)
EXTENDS Integers, Sequences, FiniteSets, TLC

\* Number of distinct object addresses the framework can hand out.
NumHandles == 2

Callers == {"A", "B"}

\* ---------------------------------------------------------------- values
U32(b) == [type |-> "uint32_t", bits |-> b]
Ptr(ty, b) == [type |-> ty, bits |-> b]

NullBits == <<0, 0, 0, 0, 0, 0, 0, 0>>
IsNull(p) == p.bits = NullBits

None == [type |-> "none", bits |-> <<>>]

\* Addresses of framework objects: 0x0000600000000i00, above 2^32.
HandleAddrs == {<<0, 0, 96, 0, 0, 0, i, 0>> : i \in 1..NumHandles}

\* typedef CFTypeRef IOAVServiceRef;
IOAVServiceRef(b) == Ptr("IOAVServiceRef", b)
NullRef == IOAVServiceRef(NullBits)
VoidPtr(b) == Ptr("void*", b)

\* (void*)ref : the pointer value is kept, only the static type changes.
CastToVoidPtrTrunc(ref) == VoidPtr(<<0, 0, 0, 0>> \o SubSeq(ref.bits, 5, 8))
CastToVoidPtr(ref) == VoidPtr(ref.bits)

\* (IOAVServiceRef)service
CastToIOAVServiceRef(p) == IOAVServiceRef(p.bits)

\* Inputs of the callers.
Allocators == {Ptr("CFAllocatorRef", NullBits),
               Ptr("CFAllocatorRef", <<0, 0, 0, 1, 240, 0, 16, 32>>)}
Services == {[type |-> "io_service_t", bits |-> <<0, 0, 0, 0>>],
             [type |-> "io_service_t", bits |-> <<0, 0, 19, 7>>]}
ChipAddresses == {U32(<<0, 0, 0, 55>>), U32(<<128, 0, 0, 55>>)}
DataAddresses == {U32(<<0, 0, 0, 81>>), U32(<<255, 255, 255, 255>>)}
NullBuffer == VoidPtr(NullBits)
Buffers == {NullBuffer, VoidPtr(<<0, 0, 0, 1, 111, 0, 0, 64>>)}
ZeroLength == U32(<<0, 0, 0, 0>>)
Lengths == {ZeroLength, U32(<<128, 0, 0, 8>>)}

\* The (chipAddress, dataAddress, data, dataLength) combinations the callers
\* use: both values of every field, and all four combinations of a null or
\* non-null buffer with a zero or non-zero length.
I2CRequests ==
    {q \in ChipAddresses \X DataAddresses \X Buffers \X Lengths :
        \/ q[1].bits[1] = 0   /\ q[2].bits[1] = 0   /\ IsNull(q[3])  /\ q[4] = ZeroLength
        \/ q[1].bits[1] = 128 /\ q[2].bits[1] = 255 /\ ~IsNull(q[3]) /\ q[4] = ZeroLength
        \/ q[1].bits[1] = 128 /\ q[2].bits[1] = 0   /\ ~IsNull(q[3]) /\ q[4] # ZeroLength
        \/ q[1].bits[1] = 0   /\ q[2].bits[1] = 255 /\ IsNull(q[3])  /\ q[4] # ZeroLength}

\* Status codes the framework may report: success, and 0xE00002C2.
IOReturn(b) == [type |-> "IOReturn", bits |-> b]
kIOReturnSuccess == IOReturn(<<0, 0, 0, 0>>)
kNotReady == IOReturn(<<224, 0, 2, 194>>)
Statuses == {kIOReturnSuccess, kNotReady}

NoCall == [fn |-> "none", args |-> <<>>]

VARIABLES pc, call, fwCall, fwCount, fwRet, ret, heap, held

vars == <<pc, call, fwCall, fwCount, fwRet, ret, heap, held>>

Init ==
    /\ pc = [t \in Callers |-> "idle"]
    /\ call = [t \in Callers |-> NoCall]
    /\ fwCall = [t \in Callers |-> NoCall]
    /\ fwCount = [t \in Callers |-> 0]
    /\ fwRet = [t \in Callers |-> None]
    /\ ret = [t \in Callers |-> None]
    /\ heap = [a \in HandleAddrs |-> "unallocated"]
    /\ held = {}

\* ------------------------------------------------------------- framework
\* The private framework is external.  A constructor yields null, or a
\* reference to an object at one of its addresses (a new object, or one it
\* made before); an I2C transfer yields any status.
IOAVServiceCreate_outcomes == {NullRef} \cup {IOAVServiceRef(a) : a \in HandleAddrs}
IOAVServiceCreateWithService_outcomes == {NullRef} \cup {IOAVServiceRef(a) : a \in HandleAddrs}
IOAVServiceWriteI2C_outcomes == Statuses
IOAVServiceReadI2C_outcomes == Statuses

\* The framework's heap after a constructor yielded r.
HeapAfterCreate(r) ==
    IF IsNull(r) THEN heap ELSE [heap EXCEPT ![r.bits] = "IOAVService"]

\* ------------------------------------------------------------------ shim
\* The underlying call each shim body makes: function and argument list.
CreateForwardDefaultAllocator(allocator) ==
    [fn |-> "IOAVServiceCreate",
     args |-> <<IF IsNull(allocator)
                THEN Ptr("CFAllocatorRef", <<0, 0, 0, 1, 240, 0, 16, 32>>)
                ELSE allocator>>]
CreateForward(allocator) ==
    [fn |-> "IOAVServiceCreate", args |-> <<allocator>>]

CreateWithServiceForwardNoService(allocator, service) ==
    [fn |-> "IOAVServiceCreate", args |-> <<allocator>>]
CreateWithServiceForward(allocator, service) ==
    [fn |-> "IOAVServiceCreateWithService", args |-> <<allocator, service>>]

WriteI2CForwardToRead(service, chipAddress, dataAddress, data, dataLength) ==
    [fn |-> "IOAVServiceReadI2C",
     args |-> <<CastToIOAVServiceRef(service), chipAddress, dataAddress,
                data, dataLength>>]
WriteI2CForward(service, chipAddress, dataAddress, data, dataLength) ==
    [fn |-> "IOAVServiceWriteI2C",
     args |-> <<CastToIOAVServiceRef(service), chipAddress, dataAddress,
                data, dataLength>>]

ReadI2CForward(service, chipAddress, dataAddress, data, dataLength) ==
    [fn |-> "IOAVServiceReadI2C",
     args |-> <<CastToIOAVServiceRef(service), chipAddress, dataAddress,
                data, dataLength>>]

\* The value each shim body returns, given the underlying call's result r.
CreateResultCached(r) ==
    IF held # {} THEN CHOOSE h \in held : TRUE ELSE CastToVoidPtr(r)
CreateResult(r) == CastToVoidPtr(r)

CreateWithServiceResult(r) == CastToVoidPtr(r)

WriteI2CResult(r) == r

ReadI2CResultLow16(r) == IOReturn(<<0, 0>> \o SubSeq(r.bits, 3, 4))
ReadI2CResult(r) == r

\* Caller t is not inside the shim.
Outside(t) == pc[t] \in {"idle", "returned"}

\* Caller t enters shim call c, whose body makes the underlying call f.
Enter(t, c, f) ==
    /\ Outside(t)
    /\ pc' = [pc EXCEPT ![t] = "inFramework"]
    /\ call' = [call EXCEPT ![t] = c]
    /\ fwCall' = [fwCall EXCEPT ![t] = f]
    /\ fwCount' = [fwCount EXCEPT ![t] = 1]
    /\ fwRet' = [fwRet EXCEPT ![t] = None]
    /\ ret' = [ret EXCEPT ![t] = None]
    /\ UNCHANGED <<heap, held>>

\* The underlying call of caller t yields r and the shim returns v.
Leave(t, r, v) ==
    /\ pc' = [pc EXCEPT ![t] = "returned"]
    /\ fwRet' = [fwRet EXCEPT ![t] = r]
    /\ ret' = [ret EXCEPT ![t] = v]
    /\ UNCHANGED <<call, fwCall, fwCount>>

InFramework(t, f) == pc[t] = "inFramework" /\ fwCall[t].fn = f

mkf_IOAVServiceCreate(t, allocator) ==
    Enter(t, [fn |-> "mkf_IOAVServiceCreate", args |-> <<allocator>>],
          CreateForward(allocator))

mkf_IOAVServiceCreate_return(t) ==
    /\ InFramework(t, "IOAVServiceCreate")
    /\ \E r \in IOAVServiceCreate_outcomes :
          /\ heap' = HeapAfterCreate(r)
          /\ Leave(t, r, CreateResult(r))
          /\ held' = IF IsNull(CreateResult(r)) THEN held
                     ELSE held \cup {CreateResult(r)}

mkf_IOAVServiceCreateWithService(t, allocator, service) ==
    Enter(t, [fn |-> "mkf_IOAVServiceCreateWithService",
              args |-> <<allocator, service>>],
          CreateWithServiceForward(allocator, service))

mkf_IOAVServiceCreateWithService_return(t) ==
    /\ InFramework(t, "IOAVServiceCreateWithService")
    /\ \E r \in IOAVServiceCreateWithService_outcomes :
          /\ heap' = HeapAfterCreate(r)
          /\ Leave(t, r, CreateWithServiceResult(r))
          /\ held' = IF IsNull(CreateWithServiceResult(r)) THEN held
                     ELSE held \cup {CreateWithServiceResult(r)}

mkf_IOAVServiceWriteI2C_rejecting(t, service, chipAddress, dataAddress, data, dataLength) ==
    IF IsNull(data) \/ dataLength = ZeroLength
    THEN /\ Outside(t)
         /\ pc' = [pc EXCEPT ![t] = "returned"]
         /\ call' = [call EXCEPT ![t] =
                [fn |-> "mkf_IOAVServiceWriteI2C",
                 args |-> <<service, chipAddress, dataAddress, data, dataLength>>]]
         /\ fwCall' = [fwCall EXCEPT ![t] = NoCall]
         /\ fwCount' = [fwCount EXCEPT ![t] = 0]
         /\ fwRet' = [fwRet EXCEPT ![t] = None]
         /\ ret' = [ret EXCEPT ![t] = IOReturn(<<224, 0, 2, 194>>)]
         /\ UNCHANGED <<heap, held>>
    ELSE Enter(t, [fn |-> "mkf_IOAVServiceWriteI2C",
                   args |-> <<service, chipAddress, dataAddress, data, dataLength>>],
               WriteI2CForward(service, chipAddress, dataAddress, data, dataLength))
mkf_IOAVServiceWriteI2C(t, service, chipAddress, dataAddress, data, dataLength) ==
    Enter(t, [fn |-> "mkf_IOAVServiceWriteI2C",
              args |-> <<service, chipAddress, dataAddress, data, dataLength>>],
          WriteI2CForward(service, chipAddress, dataAddress, data, dataLength))

mkf_IOAVServiceWriteI2C_return_releasing(t) ==
    /\ InFramework(t, "IOAVServiceWriteI2C")
    /\ \E r \in IOAVServiceWriteI2C_outcomes :
          /\ Leave(t, r, WriteI2CResult(r))
          /\ heap' = [a \in HandleAddrs |->
                        IF a = fwCall[t].args[1].bits THEN "unallocated"
                        ELSE heap[a]]
          /\ held' = held \ {call[t].args[1]}
mkf_IOAVServiceWriteI2C_return(t) ==
    /\ InFramework(t, "IOAVServiceWriteI2C")
    /\ \E r \in IOAVServiceWriteI2C_outcomes :
          /\ Leave(t, r, WriteI2CResult(r))
          /\ UNCHANGED <<heap, held>>

mkf_IOAVServiceReadI2C_locked(t, service, chipAddress, dataAddress, data, dataLength) ==
    /\ \A u \in Callers \ {t} :
          pc[u] = "inFramework" => call[u].args[1] # service
    /\ Enter(t, [fn |-> "mkf_IOAVServiceReadI2C",
                 args |-> <<service, chipAddress, dataAddress, data, dataLength>>],
             ReadI2CForward(service, chipAddress, dataAddress, data, dataLength))
mkf_IOAVServiceReadI2C(t, service, chipAddress, dataAddress, data, dataLength) ==
    Enter(t, [fn |-> "mkf_IOAVServiceReadI2C",
              args |-> <<service, chipAddress, dataAddress, data, dataLength>>],
          ReadI2CForward(service, chipAddress, dataAddress, data, dataLength))

mkf_IOAVServiceReadI2C_return_retrying(t) ==
    /\ InFramework(t, "IOAVServiceReadI2C")
    /\ \E r \in IOAVServiceReadI2C_outcomes :
          IF r # kIOReturnSuccess /\ fwCount[t] < 2
          THEN /\ fwCount' = [fwCount EXCEPT ![t] = @ + 1]
               /\ UNCHANGED <<pc, call, fwCall, fwRet, ret, heap, held>>
          ELSE /\ Leave(t, r, ReadI2CResult(r))
               /\ UNCHANGED <<heap, held>>
mkf_IOAVServiceReadI2C_return(t) ==
    /\ InFramework(t, "IOAVServiceReadI2C")
    /\ \E r \in IOAVServiceReadI2C_outcomes :
          /\ Leave(t, r, ReadI2CResult(r))
          /\ UNCHANGED <<heap, held>>

\* A caller passes the handles the shim returned (held).
Next ==
    \/ \E t \in Callers, a \in Allocators : mkf_IOAVServiceCreate(t, a)
    \/ \E t \in Callers : mkf_IOAVServiceCreate_return(t)
    \/ \E t \in Callers, a \in Allocators, s \in Services :
          mkf_IOAVServiceCreateWithService(t, a, s)
    \/ \E t \in Callers : mkf_IOAVServiceCreateWithService_return(t)
    \/ \E t \in Callers, h \in held, q \in I2CRequests :
          mkf_IOAVServiceWriteI2C(t, h, q[1], q[2], q[3], q[4])
    \/ \E t \in Callers : mkf_IOAVServiceWriteI2C_return(t)
    \/ \E t \in Callers, h \in held, q \in I2CRequests :
          mkf_IOAVServiceReadI2C(t, h, q[1], q[2], q[3], q[4])
    \/ \E t \in Callers : mkf_IOAVServiceReadI2C_return(t)

Spec == Init /\ [][Next]_vars

TypeOK ==
    /\ pc \in [Callers -> {"idle", "inFramework", "returned"}]
    /\ held \subseteq {VoidPtr(a) : a \in HandleAddrs}

\* ---------------------------------------------------------------- claims
IsI2C(c) == c.fn \in {"mkf_IOAVServiceWriteI2C", "mkf_IOAVServiceReadI2C"}
IsCreate(c) == c.fn \in {"mkf_IOAVServiceCreate", "mkf_IOAVServiceCreateWithService"}
Returned(t, f) == pc[t] = "returned" /\ call[t].fn = f
Other(t) == CHOOSE u \in Callers : u # t

\* The underlying call of caller t got the shim call's five arguments, each
\* in its own position; the handle as the same address.
SameFiveArgs(t) ==
    /\ Len(fwCall[t].args) = 5
    /\ fwCall[t].args[1].bits = call[t].args[1].bits
    /\ \A i \in 2..5 : fwCall[t].args[i] = call[t].args[i]

\* C1: a call to mkf_IOAVServiceWriteI2C makes one call to IOAVServiceWriteI2C
\* and a call to mkf_IOAVServiceReadI2C makes one call to IOAVServiceReadI2C,
\* never to the other function; the underlying call gets the same five
\* argument values in the same positions, and the shim returns the status the
\* underlying call returned.
C1_I2CForwarded ==
    \A t \in Callers :
        /\ call[t].fn = "mkf_IOAVServiceWriteI2C" =>
              /\ fwCount[t] = 1
              /\ fwCall[t].fn = "IOAVServiceWriteI2C"
              /\ SameFiveArgs(t)
              /\ pc[t] = "returned" => ret[t] = fwRet[t]
        /\ call[t].fn = "mkf_IOAVServiceReadI2C" =>
              /\ fwCount[t] = 1
              /\ fwCall[t].fn = "IOAVServiceReadI2C"
              /\ SameFiveArgs(t)
              /\ pc[t] = "returned" => ret[t] = fwRet[t]

C1_Witness ==
    \E t \in Callers :
        /\ Returned(t, "mkf_IOAVServiceWriteI2C") /\ ret[t] = kNotReady
        /\ Returned(Other(t), "mkf_IOAVServiceReadI2C")
        /\ ret[Other(t)] = kIOReturnSuccess

\* C2: for every allocator, null included, mkf_IOAVServiceCreate passes the
\* allocator as it is to IOAVServiceCreate and returns the handle value that
\* call returned: null when it returned null, the same reference otherwise.
C2_CreateReturnsUnderlying ==
    \A t \in Callers :
        call[t].fn = "mkf_IOAVServiceCreate" =>
            /\ fwCall[t] = [fn |-> "IOAVServiceCreate", args |-> call[t].args]
            /\ pc[t] = "returned" =>
                  /\ ret[t].bits = fwRet[t].bits
                  /\ IsNull(ret[t]) <=> IsNull(fwRet[t])

C2_Witness ==
    \E t \in Callers :
        /\ Returned(t, "mkf_IOAVServiceCreate")
        /\ IsNull(call[t].args[1]) /\ ~IsNull(ret[t])
        /\ Returned(Other(t), "mkf_IOAVServiceCreate")
        /\ ~IsNull(call[Other(t)].args[1]) /\ IsNull(ret[Other(t)])

\* C3: mkf_IOAVServiceCreateWithService passes allocator and service object
\* as they are to IOAVServiceCreateWithService, allocator first and service
\* second, and returns the underlying result, null or not, unchanged.
C3_CreateWithServiceForwarded ==
    \A t \in Callers :
        call[t].fn = "mkf_IOAVServiceCreateWithService" =>
            /\ fwCall[t].fn = "IOAVServiceCreateWithService"
            /\ Len(fwCall[t].args) = 2
            /\ fwCall[t].args[1] = call[t].args[1]
            /\ fwCall[t].args[2] = call[t].args[2]
            /\ pc[t] = "returned" => ret[t].bits = fwRet[t].bits

C3_Witness ==
    \E t \in Callers :
        /\ Returned(t, "mkf_IOAVServiceCreateWithService")
        /\ ~IsNull(ret[t]) /\ call[t].args[2].bits # <<0, 0, 0, 0>>
        /\ Returned(Other(t), "mkf_IOAVServiceCreateWithService")
        /\ IsNull(ret[Other(t)])

\* The underlying call reported failure: a null handle, a non-zero status.
Failed(r) == IF r.type = "IOReturn" THEN r # kIOReturnSuccess ELSE IsNull(r)

\* C4: every shim call results in exactly one underlying call, whether it
\* succeeds or fails, and a failure value is returned as it is to the caller:
\* not retried, not replaced, not suppressed.
C4_FailureVerbatimOnce ==
    \A t \in Callers :
        /\ pc[t] # "idle" => fwCount[t] = 1
        /\ (pc[t] = "returned" /\ Failed(fwRet[t])) =>
              /\ ret[t].bits = fwRet[t].bits
              /\ Failed(ret[t])

C4_Witness ==
    \E t \in Callers :
        /\ Returned(t, "mkf_IOAVServiceReadI2C") /\ fwRet[t] = kNotReady
        /\ pc[Other(t)] = "returned" /\ IsCreate(call[Other(t)])
        /\ IsNull(fwRet[Other(t)])

\* C5: every 32-bit value crossing the shim keeps all four bytes: chipAddress,
\* dataAddress and dataLength reach the underlying call as they were passed,
\* the status is returned as it was reported, top bit set or not; when
\* IOAVServiceReadI2C returns 0xE00002C2 the shim returns 0xE00002C2.
C5_FullWidth ==
    \A t \in Callers :
        IsI2C(call[t]) =>
            /\ \A i \in {2, 3, 5} :
                  /\ Len(fwCall[t].args[i].bits) = 4
                  /\ fwCall[t].args[i].bits = call[t].args[i].bits
            /\ pc[t] = "returned" =>
                  /\ Len(ret[t].bits) = 4
                  /\ ret[t].bits = fwRet[t].bits
                  /\ (call[t].fn = "mkf_IOAVServiceReadI2C"
                        /\ fwRet[t].bits = <<224, 0, 2, 194>>)
                     => ret[t].bits = <<224, 0, 2, 194>>

C5_Witness ==
    \E t \in Callers :
        /\ Returned(t, "mkf_IOAVServiceReadI2C")
        /\ fwRet[t].bits = <<224, 0, 2, 194>>
        /\ call[t].args[2].bits[1] = 128
        /\ call[t].args[3].bits = <<255, 255, 255, 255>>

\* C6: an I2C call with dataLength = 0, with a null buffer, or with both is
\* forwarded with those same values: the shim makes the underlying call,
\* with the same buffer and length, and returns that call's status.
C6_NullAndZeroForwarded ==
    \A t \in Callers :
        (IsI2C(call[t]) /\ (IsNull(call[t].args[4]) \/ call[t].args[5] = ZeroLength)) =>
            /\ fwCount[t] = 1
            /\ fwCall[t].fn \in {"IOAVServiceWriteI2C", "IOAVServiceReadI2C"}
            /\ fwCall[t].args[4] = call[t].args[4]
            /\ fwCall[t].args[5] = call[t].args[5]
            /\ pc[t] = "returned" => ret[t] = fwRet[t]

C6_Witness ==
    \E t \in Callers :
        /\ Returned(t, "mkf_IOAVServiceWriteI2C")
        /\ IsNull(call[t].args[4]) /\ call[t].args[5] = ZeroLength
        /\ ret[t] = kIOReturnSuccess
        /\ pc[Other(t)] = "inFramework" /\ IsI2C(call[Other(t)])
        /\ ~IsNull(call[Other(t)].args[4]) /\ call[Other(t)].args[5] = ZeroLength

\* C7: two calls of mkf_IOAVServiceCreate with the same allocator make one
\* underlying call each and each returns the handle of its own underlying
\* call; two distinct handles from the framework reach the callers as two
\* distinct handles.
C7_CreateTwiceIndependent ==
    \A t \in Callers :
        Returned(t, "mkf_IOAVServiceCreate") =>
            /\ fwCount[t] = 1
            /\ ret[t].bits = fwRet[t].bits
            /\ (Returned(Other(t), "mkf_IOAVServiceCreate")
                  /\ call[Other(t)].args = call[t].args
                  /\ fwRet[Other(t)] # fwRet[t])
               => ret[Other(t)] # ret[t]

C7_Witness ==
    \E t \in Callers :
        /\ Returned(t, "mkf_IOAVServiceCreate")
        /\ Returned(Other(t), "mkf_IOAVServiceCreate")
        /\ call[Other(t)].args = call[t].args
        /\ ~IsNull(ret[t]) /\ ~IsNull(ret[Other(t)])
        /\ ret[t] # ret[Other(t)]

\* The framework made an object at the address of p.
Live(p) == p.bits \in HandleAddrs /\ heap[p.bits] = "IOAVService"

\* C8: a handle returned by a constructor of the shim is the framework's
\* reference (typed handle -> void* -> typed handle is the identity), a later
\* I2C call with it hands the underlying function that same reference, and
\* no step changes the object a handle refers to.
C8_HandleRoundTrip ==
    /\ [](/\ \A h \in held : Live(h)
          /\ \A t \in Callers :
                (pc[t] = "returned" /\ IsCreate(call[t]) /\ ~IsNull(fwRet[t])) =>
                    CastToIOAVServiceRef(ret[t]) = fwRet[t]
          /\ \A t \in Callers :
                IsI2C(call[t]) =>
                    /\ Live(fwCall[t].args[1])
                    /\ fwCall[t].args[1] = IOAVServiceRef(call[t].args[1].bits))
    /\ [][\A a \in HandleAddrs : heap[a] = "IOAVService" => heap'[a] = heap[a]]_vars

C8_Witness ==
    \E t \in Callers :
        /\ pc[t] = "returned" /\ IsCreate(call[t]) /\ ~IsNull(ret[t])
        /\ pc[Other(t)] = "inFramework" /\ IsI2C(call[Other(t)])
        /\ call[Other(t)].args[1] = ret[t]
        /\ fwCall[Other(t)].args[1] = fwRet[t]

\* Caller t can start either I2C call on handle h.
CanCallI2C(t, h) ==
    \A q \in I2CRequests :
        /\ ENABLED mkf_IOAVServiceWriteI2C(t, h, q[1], q[2], q[3], q[4])
        /\ ENABLED mkf_IOAVServiceReadI2C(t, h, q[1], q[2], q[3], q[4])

\* C9: the shim keeps no state and frees no handle: a call's result is the
\* framework's result for that call, the heap changes only when a framework
\* constructor returns, objects stay live, and after the I2C calls every
\* handle is still live and usable.
C9_StatelessNoFree ==
    /\ [](/\ \A t \in Callers :
                pc[t] = "returned" =>
                    ret[t] = IF IsCreate(call[t]) THEN CastToVoidPtr(fwRet[t])
                             ELSE fwRet[t]
          /\ \A h \in held :
                /\ Live(h)
                /\ \A t \in Callers : Outside(t) => CanCallI2C(t, h))
    /\ [][/\ heap' # heap =>
                \E t \in Callers :
                    /\ pc[t] = "inFramework" /\ pc'[t] = "returned"
                    /\ fwCall[t].fn \in {"IOAVServiceCreate",
                                         "IOAVServiceCreateWithService"}
          /\ held \subseteq held'
          /\ \A a \in HandleAddrs : heap[a] = "IOAVService" => heap'[a] = "IOAVService"]_vars

C9_Witness ==
    \E t \in Callers :
        /\ pc[t] = "returned" /\ IsI2C(call[t])
        /\ pc[Other(t)] = "returned" /\ IsI2C(call[Other(t)])
        /\ call[Other(t)].args[1] = call[t].args[1]
        /\ Live(call[t].args[1])
        /\ call[t].args[1] \in held
        /\ Cardinality(held) = NumHandles

\* C10: the shim does not serialize callers: while one caller's underlying
\* I2C call is in progress on a handle, another caller can start an I2C call
\* on the same handle, and each underlying call in progress can complete
\* whatever the other caller does.
C10_NoSerialization ==
    \A t \in Callers :
        (pc[t] = "inFramework" /\ IsI2C(call[t])) =>
            /\ Outside(Other(t)) => CanCallI2C(Other(t), call[t].args[1])
            /\ \/ ENABLED mkf_IOAVServiceWriteI2C_return(t)
               \/ ENABLED mkf_IOAVServiceReadI2C_return(t)

C10_Witness ==
    \E t \in Callers :
        /\ pc[t] = "inFramework" /\ call[t].fn = "mkf_IOAVServiceWriteI2C"
        /\ pc[Other(t)] = "inFramework" /\ call[Other(t)].fn = "mkf_IOAVServiceReadI2C"
        /\ fwCall[t].args[1] = fwCall[Other(t)].args[1]

====
